---- MODULE Spec2Model ----
(***************************************************************************)
(* Model of src/arbitrage_bot.py: a two-venue arbitrage bot.  The script   *)
(* is executed top to bottom, so its first `if __name__ == "__main__"`     *)
(* block (lines 159-169) runs before the definitions of lines 172-282      *)
(* exist, and its second block (lines 284-302) runs afterwards with the    *)
(* second definitions of build_and_send_tx and check_arbitrage_opportunity.*)
(*                                                                         *)
(* Units.  TLC integers are 32 bits wide, Python's are unbounded, so the   *)
(* quantities are carried in coarser units than the code's:                *)
(*   gas prices  in gwei (the code's current_gas_price, a float in gwei);  *)
(*   quotes      in QUOTE_UNIT-ths of a USDC (the code's raw quote is in   *)
(*               10^-6 USDC), for the reference input of 5 MON;            *)
(*   sizes       in MON (the code's swap_amount is in 10^-18 MON);         *)
(*   time        in ticks of 1/TICKS_PER_SECOND second.                    *)
(* Python floats are modelled as exact rationals [n |-> .., d |-> ..].     *)
(***************************************************************************)
EXTENDS Integers, Sequences, FiniteSets, TLC

(* ---------------------------- bounds ----------------------------------- *)
\* number of poll cycles of the second main block that are explored
MaxCycles == 2
\* largest deviation, in hundredths of a USDC per MON, given to the sizer
MaxDeviation == 30

(* ------------------------ program constants ---------------------------- *)
MAX_GAS_PRICE == 200
MAX_GAS == 300000
\* MIN_PROFIT_MON = 0.015 = 3/200
MIN_PROFIT_MON == [n |-> 3, d |-> 200]
\* deadline = int(time.time()) + 60
DEADLINE_WINDOW == 60
\* time.sleep(20)
SLEEP_SECONDS == 20
\* the reference input of every quote: 5 * 10**18 wei = 5 MON
REFERENCE_MON == 5
\* gwei per MON (10**18 wei / 10**9 wei)
GWEI_PER_MON == 1000000000

(* ------------------------ modelling units ------------------------------ *)
TICKS_PER_SECOND == 2
QUOTE_UNIT == 10

(* ------------------------ input domains -------------------------------- *)
\* web3.eth.gas_price / 1e9, as the network may report it
NetGasPrices == {50, 300}
\* getAmountsOut(5 MON)[-1]; 0 is also what get_price returns on an exception.
\* 10.0, 10.1 and 11.1 USDC: deviations of 0.02, 0.2 (a tier boundary) and 0.22
Quotes == {0, 100, 101, 111}
\* ticks a leg's wait_for_transaction_receipt may take
Latencies == {1, 120}
Routers == {"uniswap", "crystal"}
\* Python's None where the value is a name; numbers that are not set are 0
None == "None"
RpcError == "RpcError"

(* ------------------------ rational arithmetic -------------------------- *)
Abs(x) == IF x < 0 THEN -x ELSE x
Min(a, b) == IF a <= b THEN a ELSE b

RECURSIVE Gcd(_, _)
Gcd(a, b) == IF b = 0 THEN a ELSE Gcd(b, a % b)

Rat(n, d) ==
    LET g == Gcd(Abs(n), d)
    IN  IF g = 0 THEN [n |-> 0, d |-> 1] ELSE [n |-> n \div g, d |-> d \div g]
RatMul(a, b) == Rat(a.n * b.n, a.d * b.d)
RatSub(a, b) == Rat(a.n * b.d - b.n * a.d, a.d * b.d)
\* a / b, defined for b.n > 0 (Python raises ZeroDivisionError for b = 0)
RatDiv(a, b) == Rat(a.n * b.d, a.d * b.n)
RatGE(a, b) == a.n * b.d >= b.n * a.d
RatGT(a, b) == a.n * b.d > b.n * a.d
RatInt(k) == [n |-> k, d |-> 1]

(* ------------------------ pure functions ------------------------------- *)
\* a get_optimized_gas_price that forgets the ceiling
get_optimized_gas_price_Unclamped(net) == net

\* get_optimized_gas_price: min(current_gas_price, MAX_GAS_PRICE), in gwei
get_optimized_gas_price(net) == Min(net, MAX_GAS_PRICE)

\* a sizer whose thresholds are inclusive
get_dynamic_swap_amount_Inclusive(price_diff) ==
    IF RatGE(price_diff, Rat(2, 10)) THEN 5
    ELSE IF RatGE(price_diff, Rat(1, 10)) THEN 3
    ELSE 2

\* get_dynamic_swap_amount, in MON; price_diff is a rational
get_dynamic_swap_amount(price_diff) ==
    IF RatGT(price_diff, Rat(2, 10)) THEN 5
    ELSE IF RatGT(price_diff, Rat(1, 10)) THEN 3
    ELSE 2

\* price_x_usdc = price_x / 10**6 : the quote in USDC
Usdc(quote) == Rat(quote, QUOTE_UNIT)

\* price_diff_usdc = abs(price_uniswap_usdc - price_crystal_usdc) / 5
PriceDiff(pu, pc_) ==
    LET diff == RatSub(Usdc(pu), Usdc(pc_))
    IN  RatDiv([n |-> Abs(diff.n), d |-> diff.d], RatInt(REFERENCE_MON))

\* calculate_mon_profit raises ZeroDivisionError: line 201 divides by
\* sell_price_usdc/5 and line 204 by buy_price_usdc
ProfitDivisionByZero(sell, buy) == sell = 0 \/ buy = 0

\* a calculate_mon_profit that adds the gas cost to the proceeds
calculate_mon_profit_GasAdded(sell, buy, amount_mon, actual) ==
    LET gas_cost_mon0 == Rat(MAX_GAS * 2 * actual, GWEI_PER_MON)
        per_mon       == RatDiv(Usdc(sell), RatInt(REFERENCE_MON))
        gas_cost_usdc == RatMul(gas_cost_mon0, per_mon)
        gas_cost_mon  == RatDiv(gas_cost_usdc, per_mon)
        mon_buyback   == RatDiv(RatMul(RatInt(amount_mon),
                                       RatSub(Usdc(sell),
                                              RatSub(RatInt(0), gas_cost_usdc))),
                                Usdc(buy))
        profit_mon    == RatSub(mon_buyback, RatInt(amount_mon))
    IN  [gas_cost_usdc  |-> gas_cost_usdc,
         gas_cost_mon   |-> gas_cost_mon,
         mon_buyback    |-> mon_buyback,
         profit_mon     |-> profit_mon,
         gas_price_used |-> actual]

\* calculate_mon_profit for nonzero quotes; actual is the fee rate of line 196
calculate_mon_profit(sell, buy, amount_mon, actual) ==
    LET gas_cost_mon0 == Rat(MAX_GAS * 2 * actual, GWEI_PER_MON)
        per_mon       == RatDiv(Usdc(sell), RatInt(REFERENCE_MON))
        gas_cost_usdc == RatMul(gas_cost_mon0, per_mon)
        gas_cost_mon  == RatDiv(gas_cost_usdc, per_mon)
        mon_buyback   == RatDiv(RatMul(RatInt(amount_mon),
                                       RatSub(Usdc(sell), gas_cost_usdc)),
                                Usdc(buy))
        profit_mon    == RatSub(mon_buyback, RatInt(amount_mon))
    IN  [gas_cost_usdc  |-> gas_cost_usdc,
         gas_cost_mon   |-> gas_cost_mon,
         mon_buyback    |-> mon_buyback,
         profit_mon     |-> profit_mon,
         gas_price_used |-> actual]

(* ------------------------------ state ---------------------------------- *)
VARIABLES
    pc,                 \* position of the single thread of control
    cycle,              \* poll cycle of the second main block (0 before it)
    now,                \* time.time(), in ticks
    net_gas,            \* last value read from web3.eth.gas_price (gwei)
    current_gas_price,  \* check_arbitrage_opportunity: line 256
    price_uniswap,      \* line 257
    price_crystal,      \* line 258
    swap_amount,        \* line 264 (MON)
    profit_info,        \* lines 266-269
    decision,           \* branch taken at line 275
    high_price_router,  \* execute_arbitrage's first argument
    price_hint,         \* execute_arbitrage's third argument (a quote)
    deadline,           \* line 220 (seconds)
    exec_swap_amount,   \* line 223 (MON)
    tx,                 \* the transaction built for the current leg
    tx_hash1,           \* line 228
    tx_hash2,           \* line 238
    result,             \* value returned by execute_arbitrage
    txlog,              \* this cycle's transactions accepted by the node
    ledger,             \* every transaction of the account on the ledger
    outcomes,           \* <<terminal state, returned value>> of past attempts
    exit_reason,        \* which except clause of lines 299-302 ended the run
    error,              \* the exception that was raised last
    interrupted,        \* a KeyboardInterrupt has been accepted
    config,             \* what the environment provides at startup
    dev1, dev2,         \* two deviations given to get_dynamic_swap_amount
    size1, size2        \* the sizes it returned for them (0: not yet)

vars == <<pc, cycle, now, net_gas, current_gas_price, price_uniswap,
          price_crystal, swap_amount, profit_info, decision,
          high_price_router, price_hint, deadline, exec_swap_amount,
          tx, tx_hash1, tx_hash2, result, txlog, ledger, outcomes,
          exit_reason, error, interrupted, config, dev1, dev2, size1,
          size2>>

\* the variables no step of the script changes
fixedVars == <<config, dev1, dev2, size1, size2>>

evalVars == <<current_gas_price, price_uniswap, price_crystal, swap_amount,
              profit_info, decision>>
execVars == <<high_price_router, price_hint, deadline, exec_swap_amount,
              tx, tx_hash1, tx_hash2, result>>
histVars == <<txlog, ledger, outcomes>>
endVars  == <<exit_reason, error, interrupted>>

\* profit_info before calculate_mon_profit has returned
NoProfitInfo ==
    [gas_cost_usdc |-> RatInt(0), gas_cost_mon |-> RatInt(0),
     mon_buyback |-> RatInt(0), profit_mon |-> RatInt(0), gas_price_used |-> 0]

\* no transaction has been built
NoTx == [leg |-> 0]

\* the environment of a start of the script: which of the values that
\* lines 28-52 require are there
Configs ==
    [addresses : BOOLEAN, private_key : BOOLEAN, rpc : BOOLEAN, abi : BOOLEAN]

\* the state before line 1, but for config and the sizer's inputs
ProgInit ==
    /\ pc = "startup"
    /\ cycle = 0
    /\ now = 0
    /\ net_gas = 0
    /\ current_gas_price = 0
    /\ price_uniswap = 0
    /\ price_crystal = 0
    /\ swap_amount = 0
    /\ profit_info = NoProfitInfo
    /\ decision = None
    /\ high_price_router = None
    /\ price_hint = 0
    /\ deadline = 0
    /\ exec_swap_amount = 0
    /\ tx = NoTx
    /\ tx_hash1 = 0
    /\ tx_hash2 = 0
    /\ result = None
    /\ txlog = <<>>
    /\ ledger = <<>>
    /\ outcomes = {}
    /\ exit_reason = None
    /\ error = None
    /\ interrupted = FALSE

Init ==
    /\ ProgInit
    /\ config \in Configs
    /\ dev1 = 0 /\ dev2 = 0 /\ size1 = 0 /\ size2 = 0

(* ------------------------ startup, lines 20-56 ------------------------- *)
\* a startup that does not check the private key
StartupError_KeyUnchecked(cfg) ==
    IF ~cfg.addresses THEN "AddressError"
    ELSE IF ~cfg.rpc THEN "ConnectionError"
    ELSE IF ~cfg.abi THEN "FileNotFoundError"
    ELSE None

\* the exception the module-level code raises, in the order of the lines:
\* to_checksum_address(None) (31-34), PRIVATE_KEY (36-38), is_connected
\* (41-43), the ABI file (48-52); None when nothing is raised
StartupError(cfg) ==
    IF ~cfg.addresses THEN "AddressError"
    ELSE IF ~cfg.private_key THEN "ValueError"
    ELSE IF ~cfg.rpc THEN "ConnectionError"
    ELSE IF ~cfg.abi THEN "FileNotFoundError"
    ELSE None

\* lines 20-56: an exception raised there is caught nowhere, the script ends
\* with a traceback before any main block
Startup ==
    /\ pc = "startup"
    /\ IF StartupError(config) = None
       THEN /\ pc' = "m1_account"
            /\ UNCHANGED <<exit_reason, error>>
       ELSE /\ pc' = "exited"
            /\ exit_reason' = "startup"
            /\ error' = StartupError(config)
    /\ UNCHANGED <<cycle, now, net_gas, evalVars, execVars, histVars,
                   interrupted, fixedVars>>

(* ------------------- first main block, lines 159-169 ------------------- *)
\* lines 161-162: Account.from_key, web3.eth.default_account
Main1Account ==
    /\ UNCHANGED fixedVars
    /\ pc = "m1_account"
    /\ pc' = "m1_gas"
    /\ UNCHANGED <<cycle, now, net_gas, evalVars, execVars, histVars, endVars>>

\* line 164 -> first check_arbitrage_opportunity, line 140: the fee-rate read.
\* An exception is caught at line 168 and the script goes on to line 172.
Main1CheckGas ==
    /\ UNCHANGED fixedVars
    /\ pc = "m1_gas"
    /\ \/ \E g \in NetGasPrices :
             /\ pc' = "m1_quote"
             /\ net_gas' = g
             /\ current_gas_price' = get_optimized_gas_price(g)
             /\ UNCHANGED error
       \/ /\ pc' = "m2_account"
          /\ error' = RpcError
          /\ UNCHANGED <<net_gas, current_gas_price>>
    /\ UNCHANGED <<cycle, now, price_uniswap, price_crystal, swap_amount,
                   profit_info, decision, execVars, histVars, exit_reason,
                   interrupted>>

\* line 141: get_price is not defined before line 172, so the call raises
\* NameError, which line 168 catches; the script goes on to line 172.
Main1GetPrice ==
    /\ UNCHANGED fixedVars
    /\ pc = "m1_quote"
    /\ pc' = "m2_account"
    /\ error' = "NameError"
    /\ net_gas' = 0
    /\ current_gas_price' = 0
    /\ UNCHANGED <<cycle, now, price_uniswap, price_crystal,
                   swap_amount, profit_info, decision, execVars, histVars,
                   exit_reason, interrupted>>

\* lines 166-167: KeyboardInterrupt in the first block is caught, "Bot
\* stopped by user" is printed, and the script goes on to line 172.
Main1Interrupt ==
    /\ UNCHANGED fixedVars
    /\ pc \in {"m1_account", "m1_gas", "m1_quote"}
    /\ pc' = "m2_account"
    /\ interrupted' = TRUE
    /\ net_gas' = 0
    /\ current_gas_price' = 0
    /\ UNCHANGED <<cycle, now, price_uniswap, price_crystal,
                   swap_amount, profit_info, decision, execVars, histVars,
                   exit_reason, error>>

(* ------------- second main block, lines 284-302: evaluation ------------ *)
\* lines 286-294: the account is set and the settings are printed
Main2Account ==
    /\ UNCHANGED fixedVars
    /\ pc = "m2_account"
    /\ pc' = "gas"
    /\ cycle' = 1
    /\ error' = None
    /\ UNCHANGED <<now, net_gas, evalVars, execVars, histVars, exit_reason,
                   interrupted>>

\* lines 301-302: an Exception that leaves check_arbitrage_opportunity leaves
\* the while loop too; "Critical error" is printed and the script ends
Critical(e) ==
    /\ pc' = "exited"
    /\ exit_reason' = "critical"
    /\ error' = e

\* line 256: current_gas_price = get_optimized_gas_price()
CheckGasPrice ==
    /\ UNCHANGED fixedVars
    /\ pc = "gas"
    /\ \/ \E g \in NetGasPrices :
             /\ net_gas' = g
             /\ current_gas_price' = get_optimized_gas_price(g)
             /\ pc' = "quote_uniswap"
             /\ UNCHANGED <<exit_reason, error>>
       \/ /\ Critical(RpcError)
          /\ UNCHANGED <<net_gas, current_gas_price>>
    /\ UNCHANGED <<cycle, now, price_uniswap, price_crystal, swap_amount,
                   profit_info, decision, execVars, histVars, interrupted>>

\* what getAmountsOut(...).call() does: returns amounts or raises
QuoteResponses ==
    {[ok |-> TRUE, out |-> q] : q \in Quotes} \cup {[ok |-> FALSE, out |-> 0]}

\* get_price, lines 172-180: the last amount, or 0 when the call raised
get_price(resp) == IF resp.ok THEN resp.out ELSE 0

\* line 257
GetPriceUniswap ==
    /\ UNCHANGED fixedVars
    /\ pc = "quote_uniswap"
    /\ \E resp \in QuoteResponses : price_uniswap' = get_price(resp)
    /\ pc' = "quote_crystal"
    /\ UNCHANGED <<cycle, now, net_gas, current_gas_price, price_crystal,
                   swap_amount, profit_info, decision, execVars, histVars,
                   endVars>>

\* line 258
GetPriceCrystal ==
    /\ UNCHANGED fixedVars
    /\ pc = "quote_crystal"
    /\ \E resp \in QuoteResponses : price_crystal' = get_price(resp)
    /\ pc' = "size"
    /\ UNCHANGED <<cycle, now, net_gas, current_gas_price, price_uniswap,
                   swap_amount, profit_info, decision, execVars, histVars,
                   endVars>>

\* lines 260-264: the deviation and the position sizer
SelectSize ==
    /\ UNCHANGED fixedVars
    /\ pc = "size"
    /\ swap_amount' =
          get_dynamic_swap_amount(PriceDiff(price_uniswap, price_crystal))
    /\ pc' = "profit"
    /\ UNCHANGED <<cycle, now, net_gas, current_gas_price, price_uniswap,
                   price_crystal, profit_info, decision, execVars, histVars,
                   endVars>>

\* lines 266-269: which quote is the sell price and which the buy price
SellPrice(pu, pcr) == IF pu > pcr THEN pu ELSE pcr
BuyPrice(pu, pcr) == IF pu > pcr THEN pcr ELSE pu

\* lines 266-269 with calculate_mon_profit, lines 193-215: the fee rate is
\* read again (line 196), then the divisions of lines 201 and 204
EstimateProfit ==
    /\ UNCHANGED fixedVars
    /\ pc = "profit"
    /\ LET sell == SellPrice(price_uniswap, price_crystal)
           buy  == BuyPrice(price_uniswap, price_crystal)
       IN  \/ \E g \in NetGasPrices :
                 /\ net_gas' = g
                 /\ IF ProfitDivisionByZero(sell, buy)
                    THEN /\ Critical("ZeroDivisionError")
                         /\ UNCHANGED profit_info
                    ELSE /\ profit_info' =
                               calculate_mon_profit(sell, buy, swap_amount,
                                   get_optimized_gas_price(g))
                         /\ pc' = "decide"
                         /\ UNCHANGED <<exit_reason, error>>
           \/ /\ Critical(RpcError)
              /\ UNCHANGED <<net_gas, profit_info>>
    /\ UNCHANGED <<cycle, now, current_gas_price, price_uniswap,
                   price_crystal, swap_amount, decision, execVars, histVars,
                   interrupted>>

\* a check_arbitrage_opportunity that executes whatever the estimate is
ShouldExecute_Ungated(info) == TRUE

\* line 275: if profit_info['profit_mon'] >= MIN_PROFIT_MON
ShouldExecute(info) == RatGE(info.profit_mon, MIN_PROFIT_MON)

\* lines 271-282: execute on the venue with the greater quote, or skip
Decide ==
    /\ UNCHANGED fixedVars
    /\ pc = "decide"
    /\ IF ShouldExecute(profit_info)
       THEN /\ decision' = "Execute"
            /\ high_price_router' =
                  IF price_uniswap > price_crystal THEN "uniswap" ELSE "crystal"
            /\ price_hint' = SellPrice(price_uniswap, price_crystal)
            /\ pc' = "leg1_build"
       ELSE /\ decision' = "Skip"
            /\ pc' = "sleep"
            /\ UNCHANGED <<high_price_router, price_hint>>
    /\ UNCHANGED <<cycle, now, net_gas, current_gas_price, price_uniswap,
                   price_crystal, swap_amount, profit_info, deadline,
                   exec_swap_amount, tx, tx_hash1, tx_hash2,
                   result, histVars, endVars>>

(* ------------- execute_arbitrage, lines 217-252: the two legs ----------- *)
\* an execute_arbitrage that buys back less than it sold
Leg2AmountOut_Shrunk(size) == size - 1

\* line 240: amount_out of leg 2 is swap_amount, the value of leg 1 (line 233)
Leg2AmountOut(size) == size

\* line 221: account = web3.eth.default_account, the recipient of both legs
Recipient == "account"

\* a caller that passes the high-price router for both legs
LowRouter_Same(high) == high

LowRouter(high) == IF high = "uniswap" THEN "crystal" ELSE "uniswap"

\* web3.eth.get_transaction_count(account): the transactions of the account
\* that are mined (the default block is 'latest')
AccountNonce(led) ==
    Cardinality({i \in 1..Len(led) : led[i].mined})

\* line 220: deadline = int(time.time()) + 60, in seconds
NewDeadline(t) == (t \div TICKS_PER_SECOND) + DEADLINE_WINDOW

\* line 243: leg 2 is given the deadline computed at line 220
Leg2Deadline(leg1_deadline, t) == leg1_deadline

\* lines 182-191: a truthy tx_hash is returned once the receipt has arrived,
\* whatever its status; the hash is modelled as the index in txlog, None as 0
ReceiptHash(index, status) == index

\* a build_and_send_tx without its except clause
SubmitError_Propagates == FALSE

\* line 189: `except Exception` catches what signing, sending and waiting
\* raise, and build_and_send_tx returns (None, 0)
SubmitErrorCaught == TRUE

\* an execute_arbitrage that goes on to leg 2 whatever leg 1 returned
Leg2Attempted_Always(hash1) == TRUE

\* line 236: `if tx_hash1:`
Leg2Attempted(hash1) == hash1 # 0

\* lines 245-252: True when both hashes are truthy, otherwise False
ExecuteResult(hash1, hash2) ==
    IF hash1 # 0 /\ hash2 # 0 THEN "True" ELSE "False"

\* the terminal state of an attempt, in the words of the specification
TerminalState(hash1, hash2) ==
    IF hash1 = 0 THEN "AbortedBeforeSubmission"
    ELSE IF hash2 = 0 THEN "PartialFailure"
    ELSE "Success"

\* execute_arbitrage returns to line 282, and the loop to line 298
Return(hash1, hash2) ==
    /\ result' = ExecuteResult(hash1, hash2)
    /\ outcomes' = outcomes \cup
          {<<TerminalState(hash1, hash2), ExecuteResult(hash1, hash2)>>}
    /\ pc' = "sleep"

\* lines 220-223 and execute_exact_eth_for_tokens, lines 91-105: the deadline,
\* the size, then the nonce and fee-rate reads and the built transaction.
\* The reads are outside any try: an exception ends the run (line 301).
Leg1Build ==
    /\ UNCHANGED fixedVars
    /\ pc = "leg1_build"
    /\ deadline' = NewDeadline(now)
    /\ exec_swap_amount' = get_dynamic_swap_amount(Usdc(price_hint))
    /\ \/ \E g \in NetGasPrices :
             /\ net_gas' = g
             /\ tx' = [leg      |-> 1,
                       router   |-> high_price_router,
                       nonce    |-> AccountNonce(ledger),
                       gasPrice |-> get_optimized_gas_price(g),
                       deadline |-> deadline',
                       to       |-> Recipient,
                       amount   |-> exec_swap_amount',
                       started  |-> now]
             /\ pc' = "leg1_send"
             /\ UNCHANGED <<exit_reason, error>>
       \/ /\ Critical(RpcError)
          /\ UNCHANGED <<net_gas, tx>>
    /\ UNCHANGED <<cycle, now, evalVars, high_price_router, price_hint,
                   tx_hash1, tx_hash2, result, histVars, interrupted>>

\* send_raw_transaction, line 186, returns a hash when the node takes the
\* transaction: a transaction whose nonce is that of one still pending is
\* taken only as a replacement, with a gasPrice at least 10% higher
NodeAccepts(led, t) ==
    \A i \in 1..Len(led) :
       (led[i].nonce = t.nonce /\ ~led[i].mined) =>
           t.gasPrice * 10 >= led[i].gasPrice * 11

\* the account's transaction as the node holds it.  One that is left pending
\* stays pending in the cycles explored.
Pending(t) == [nonce |-> t.nonce, mined |-> FALSE, gasPrice |-> t.gasPrice]

\* a transaction as the ledger holds it after send_raw_transaction
Submitted(t) ==
    [leg |-> t.leg, router |-> t.router, nonce |-> t.nonce,
     gasPrice |-> t.gasPrice, deadline |-> t.deadline, to |-> t.to,
     amount |-> t.amount, started |-> t.started,
     cycle |-> cycle, submittedAt |-> now, status |-> "pending",
     confirmedAt |-> 0]

\* build_and_send_tx, lines 185-186, for leg 1: sign and send
Leg1Send ==
    /\ UNCHANGED fixedVars
    /\ pc = "leg1_send"
    /\ \/ /\ NodeAccepts(ledger, tx)
          /\ txlog' = Append(txlog, Submitted(tx))
          /\ ledger' = Append(ledger, Pending(tx))
          /\ pc' = "leg1_wait"
          /\ UNCHANGED <<tx_hash1, result, outcomes, exit_reason, error>>
       \/ /\ SubmitErrorCaught
          /\ tx_hash1' = 0
          /\ IF Leg2Attempted(0)
             THEN pc' = "leg2_build" /\ UNCHANGED <<result, outcomes>>
             ELSE Return(0, 0)
          /\ UNCHANGED <<txlog, ledger, exit_reason, error>>
       \/ /\ ~SubmitErrorCaught
          /\ Critical("SubmissionError")
          /\ UNCHANGED <<tx_hash1, result, txlog, ledger, outcomes>>
    /\ UNCHANGED <<cycle, now, net_gas, evalVars, high_price_router,
                   price_hint, deadline, exec_swap_amount, tx,
                   tx_hash2, interrupted>>

\* build_and_send_tx, lines 187-191, for leg 1, and line 236
Leg1Wait ==
    /\ UNCHANGED fixedVars
    /\ pc = "leg1_wait"
    /\ \E lat \in Latencies : now' = now + lat
    /\ \/ \E st \in {"success", "reverted"} :
             /\ txlog' = [txlog EXCEPT ![Len(txlog)].status = st,
                                       ![Len(txlog)].confirmedAt = now']
             /\ ledger' = [ledger EXCEPT ![Len(ledger)].mined = TRUE]
             /\ tx_hash1' = ReceiptHash(Len(txlog), st)
             /\ IF Leg2Attempted(tx_hash1')
                THEN pc' = "leg2_build" /\ UNCHANGED <<result, outcomes>>
                ELSE Return(tx_hash1', 0)
             /\ UNCHANGED <<exit_reason, error>>
       \/ /\ SubmitErrorCaught
          /\ tx_hash1' = 0
          /\ IF Leg2Attempted(0)
             THEN pc' = "leg2_build" /\ UNCHANGED <<result, outcomes>>
             ELSE Return(0, 0)
          /\ UNCHANGED <<txlog, ledger, exit_reason, error>>
       \/ /\ ~SubmitErrorCaught
          /\ Critical("SubmissionError")
          /\ UNCHANGED <<tx_hash1, result, txlog, ledger, outcomes>>
    /\ UNCHANGED <<cycle, net_gas, evalVars, high_price_router, price_hint,
                   deadline, exec_swap_amount, tx, tx_hash2,
                   interrupted>>

\* execute_tokens_for_exact_eth, lines 115-130, called at line 238
Leg2Build ==
    /\ UNCHANGED fixedVars
    /\ pc = "leg2_build"
    /\ \/ \E g \in NetGasPrices :
             /\ net_gas' = g
             /\ tx' = [leg      |-> 2,
                       router   |-> LowRouter(high_price_router),
                       nonce    |-> AccountNonce(ledger),
                       gasPrice |-> get_optimized_gas_price(g),
                       deadline |-> Leg2Deadline(deadline, now),
                       to       |-> Recipient,
                       amount   |-> Leg2AmountOut(exec_swap_amount),
                       started  |-> now]
             /\ pc' = "leg2_send"
             /\ UNCHANGED <<exit_reason, error>>
       \/ /\ Critical(RpcError)
          /\ UNCHANGED <<net_gas, tx>>
    /\ UNCHANGED <<cycle, now, evalVars, high_price_router, price_hint,
                   deadline, exec_swap_amount, tx_hash1, tx_hash2, result,
                   histVars, interrupted>>

\* build_and_send_tx, lines 185-186, for leg 2
Leg2Send ==
    /\ UNCHANGED fixedVars
    /\ pc = "leg2_send"
    /\ \/ /\ NodeAccepts(ledger, tx)
          /\ txlog' = Append(txlog, Submitted(tx))
          /\ ledger' = Append(ledger, Pending(tx))
          /\ pc' = "leg2_wait"
          /\ UNCHANGED <<tx_hash2, result, outcomes, exit_reason, error>>
       \/ /\ SubmitErrorCaught
          /\ tx_hash2' = 0
          /\ Return(tx_hash1, 0)
          /\ UNCHANGED <<txlog, ledger, exit_reason, error>>
       \/ /\ ~SubmitErrorCaught
          /\ Critical("SubmissionError")
          /\ UNCHANGED <<tx_hash2, result, txlog, ledger, outcomes>>
    /\ UNCHANGED <<cycle, now, net_gas, evalVars, high_price_router,
                   price_hint, deadline, exec_swap_amount, tx,
                   tx_hash1, interrupted>>

\* build_and_send_tx, lines 187-191, for leg 2, and lines 245-252
Leg2Wait ==
    /\ UNCHANGED fixedVars
    /\ pc = "leg2_wait"
    /\ \E lat \in Latencies : now' = now + lat
    /\ \/ \E st \in {"success", "reverted"} :
             /\ txlog' = [txlog EXCEPT ![Len(txlog)].status = st,
                                       ![Len(txlog)].confirmedAt = now']
             /\ ledger' = [ledger EXCEPT ![Len(ledger)].mined = TRUE]
             /\ tx_hash2' = ReceiptHash(Len(txlog), st)
             /\ result' = ExecuteResult(tx_hash1, tx_hash2')
             /\ outcomes' = outcomes \cup
                   {<<TerminalState(tx_hash1, tx_hash2'),
                      ExecuteResult(tx_hash1, tx_hash2')>>}
             /\ pc' = "sleep"
             /\ UNCHANGED <<exit_reason, error>>
       \/ /\ SubmitErrorCaught
          /\ tx_hash2' = 0
          /\ Return(tx_hash1, 0)
          /\ UNCHANGED <<txlog, ledger, exit_reason, error>>
       \/ /\ ~SubmitErrorCaught
          /\ Critical("SubmissionError")
          /\ UNCHANGED <<tx_hash2, result, txlog, ledger, outcomes>>
    /\ UNCHANGED <<cycle, net_gas, evalVars, high_price_router, price_hint,
                   deadline, exec_swap_amount, tx, tx_hash1,
                   interrupted>>

(* ------------------- the poll loop, lines 296-302 ---------------------- *)
\* line 298: time.sleep(20), then the next check_arbitrage_opportunity; the
\* locals of the finished cycle are gone.  No value computed from the clock
\* outlives a cycle, so the clock is re-based by whole seconds: only its
\* phase within the second is kept.
Sleep ==
    /\ UNCHANGED fixedVars
    /\ pc = "sleep"
    /\ cycle < MaxCycles
    /\ cycle' = cycle + 1
    /\ now' = (now + SLEEP_SECONDS * TICKS_PER_SECOND) % TICKS_PER_SECOND
    /\ pc' = "gas"
    /\ net_gas' = 0
    /\ current_gas_price' = 0
    /\ price_uniswap' = 0
    /\ price_crystal' = 0
    /\ swap_amount' = 0
    /\ profit_info' = NoProfitInfo
    /\ decision' = None
    /\ high_price_router' = None
    /\ price_hint' = 0
    /\ deadline' = 0
    /\ exec_swap_amount' = 0
    /\ tx' = NoTx
    /\ tx_hash1' = 0
    /\ tx_hash2' = 0
    /\ result' = None
    /\ txlog' = <<>>
    /\ UNCHANGED <<ledger, outcomes, endVars>>

\* the positions of the second block at which the thread can be interrupted
Running2 ==
    {"m2_account", "gas", "quote_uniswap", "quote_crystal", "size", "profit",
     "decide", "leg1_build", "leg1_send", "leg1_wait", "leg2_build",
     "leg2_send", "leg2_wait", "sleep"}

\* lines 299-300: KeyboardInterrupt is not an Exception, so no handler below
\* the main block catches it (neither line 178 nor line 189); the script ends
Interrupt ==
    /\ UNCHANGED fixedVars
    /\ pc \in Running2
    /\ pc' = "exited"
    /\ exit_reason' = "interrupt"
    /\ interrupted' = TRUE
    /\ UNCHANGED <<cycle, now, net_gas, evalVars, execVars, histVars, error>>

Next ==
    \/ Startup
    \/ Main1Account
    \/ Main1CheckGas
    \/ Main1GetPrice
    \/ Main1Interrupt
    \/ Main2Account
    \/ CheckGasPrice
    \/ GetPriceUniswap
    \/ GetPriceCrystal
    \/ SelectSize
    \/ EstimateProfit
    \/ Decide
    \/ Leg1Build
    \/ Leg1Send
    \/ Leg1Wait
    \/ Leg2Build
    \/ Leg2Send
    \/ Leg2Wait
    \/ Sleep
    \/ Interrupt

Spec == Init /\ [][Next]_vars

(* ---------------- get_dynamic_swap_amount on its own ------------------- *)
\* the deviations given to the sizer: 0.00, 0.01, ... USDC per MON
Deviations == 0..MaxDeviation

\* price_diff as the float the sizer is given
Deviation(k) == Rat(k, 100)

\* a complete configuration
GoodConfig ==
    [addresses |-> TRUE, private_key |-> TRUE, rpc |-> TRUE, abi |-> TRUE]

SizerInit ==
    /\ ProgInit
    /\ config = GoodConfig
    /\ dev1 \in Deviations
    /\ dev2 \in Deviations
    /\ size1 = 0 /\ size2 = 0

\* two calls of get_dynamic_swap_amount, lines 69-76
ApplySizer ==
    /\ size1 = 0
    /\ size1' = get_dynamic_swap_amount(Deviation(dev1))
    /\ size2' = get_dynamic_swap_amount(Deviation(dev2))
    /\ UNCHANGED <<pc, cycle, now, net_gas, evalVars, execVars, histVars,
                   endVars, config, dev1, dev2>>

SizerNext == ApplySizer

SizerSpec == SizerInit /\ [][SizerNext]_vars

(* ============================ properties =============================== *)
Leg2Positions == {"leg2_build", "leg2_send", "leg2_wait"}
LegsOf(k) == {i \in 1..Len(txlog) : txlog[i].leg = k}
ReceiptSeen(i) == txlog[i].status \in {"success", "reverted"}

\* C1: in every attempt, leg 2 is built or submitted only after the receipt
\* of leg 1 of the same attempt has been observed; when signing, sending or
\* waiting for leg 1 raised, no leg 2 is built or submitted in that attempt.
C1_Leg2OnlyAfterLeg1Receipt ==
    /\ \A i \in LegsOf(2) :
          \E j \in LegsOf(1) :
             /\ j < i
             /\ txlog[j].cycle = txlog[i].cycle
             /\ ReceiptSeen(j)
             /\ txlog[j].confirmedAt <= txlog[i].submittedAt
    /\ pc \in Leg2Positions =>
          \E j \in LegsOf(1) : ReceiptSeen(j) /\ tx_hash1 = j

\* C1 witness: a leg-2 transaction has been submitted
C1_Witness == LegsOf(2) # {}

\* C2: transactions are submitted in a cycle only when that cycle's profit
\* estimate is at least MIN_PROFIT_MON; a cycle whose estimate is below the
\* threshold is decided Skip and submits nothing.
C2_ThresholdGatesExecution ==
    /\ (txlog # <<>> \/ pc \in {"leg1_build", "leg1_send", "leg1_wait"}
                     \/ pc \in Leg2Positions)
          => RatGE(profit_info.profit_mon, MIN_PROFIT_MON)
    /\ decision \in {"Execute", "Skip"} =>
          /\ price_uniswap > 0 /\ price_crystal > 0
          /\ (decision = "Skip") <=>
                ~RatGE(profit_info.profit_mon, MIN_PROFIT_MON)
          /\ decision = "Skip" => txlog = <<>> /\ pc \in {"sleep", "exited"}

\* C2 witness: after a cycle that submitted a transaction, a cycle with
\* positive quotes and a positive estimate below the threshold is decided Skip
C2_Witness ==
    /\ ledger # <<>>
    /\ decision = "Skip"
    /\ price_uniswap > 0 /\ price_crystal > 0
    /\ RatGT(profit_info.profit_mon, RatInt(0))
    /\ ~RatGE(profit_info.profit_mon, MIN_PROFIT_MON)
    /\ txlog = <<>>
    /\ pc = "sleep"

\* The statements of C3 to C7 are checked on runs in which no interrupt was
\* accepted, so that their traces do not pass through lines 166-167.

\* C3 (as claimed): when a quote is zero, the cycle ends in Skip, neither the
\* position sizer nor calculate_mon_profit is invoked, no division by zero
\* is raised and nothing is submitted.
C3_ZeroQuoteSkips ==
    (~interrupted /\ (price_uniswap = 0 \/ price_crystal = 0)) =>
       /\ swap_amount = 0
       /\ pc \notin {"profit", "decide"}
       /\ profit_info = NoProfitInfo
       /\ error # "ZeroDivisionError"
       /\ txlog = <<>>
       /\ pc = "sleep" => decision = "Skip"

\* C4 (as claimed): once the poll loop has been entered, only an external
\* interrupt ends the run; no error of a cycle does.
C4_OnlyInterruptTerminates ==
    (~interrupted /\ cycle >= 1) => pc # "exited"

\* C5 (as claimed): leg 2 is never built or submitted when leg 1 failed,
\* a mined leg 1 whose receipt reports failure included.
C5_NoLeg2AfterFailedLeg1 ==
    (~interrupted /\ (LegsOf(2) # {} \/ pc \in Leg2Positions)) =>
        \E j \in LegsOf(1) : txlog[j].status = "success"

\* C6 (as claimed): each leg's deadline is strictly later than the time the
\* leg is submitted, and the deadline of leg 2 is computed from the time at
\* which leg 2 starts.
C6_DeadlinesInFutureAndFresh ==
    ~interrupted => \A i \in 1..Len(txlog) :
       /\ txlog[i].deadline * TICKS_PER_SECOND > txlog[i].submittedAt
       /\ txlog[i].leg = 2 =>
             txlog[i].deadline = NewDeadline(txlog[i].started)

\* C7 (as claimed): attempts that ended in different terminal states
\* returned different outcomes.
C7_OutcomesDistinguishTerminalStates ==
    ~interrupted =>
        \A a \in outcomes, b \in outcomes : a[1] # b[1] => a[2] # b[2]

\* the step in which signing, sending or waiting for leg 2 raised
Leg2Fails ==
    /\ pc \in {"leg2_send", "leg2_wait"}
    /\ tx_hash1 # 0
    /\ pc' # "leg2_wait"
    /\ tx_hash2' = 0
    /\ exit_reason' # "interrupt"

\* an attempt has ended in leg 1 confirmed, leg 2 failed
PartialFailure ==
    /\ pc = "sleep"
    /\ tx_hash1 # 0
    /\ tx_hash2 = 0
    /\ result = "False"

\* C8: when leg 1 confirmed and submitting leg 2 raises, the attempt ends
\* with no further transaction and without ending the run, and the next
\* step of the loop is the sleep that starts the next cycle (unless the
\* user interrupts).
C8_Leg2FailureContinues ==
    [][ /\ Leg2Fails =>
             /\ pc' = "sleep"
             /\ exit_reason' = None
             /\ result' = "False"
             /\ ledger' = ledger
        /\ PartialFailure =>
             \/ pc' = "gas" /\ cycle' = cycle + 1 /\ ledger' = ledger
             \/ pc' = "exited" /\ exit_reason' = "interrupt"
                   /\ ledger' = ledger ]_vars

\* C8 witness: after a partial failure the loop is in its next cycle
C8_Witness ==
    /\ <<"PartialFailure", "False">> \in outcomes
    /\ cycle > 1
    /\ pc = "gas"
    /\ exit_reason = None

\* the positions reached only by evaluating or by submitting a leg
Evaluating ==
    {"quote_uniswap", "quote_crystal", "size", "profit", "decide",
     "leg1_build", "leg1_send", "leg1_wait", "leg2_build", "leg2_send",
     "leg2_wait"}

\* C9 (as claimed): once a KeyboardInterrupt has been accepted, nothing is
\* evaluated and no leg is submitted any more.
C9_NothingAfterInterrupt ==
    interrupted => pc \notin Evaluating

\* C10: the fee rate of every profit estimate and the gasPrice of every
\* built leg is at most MAX_GAS_PRICE, whatever the network reports.
C10_FeeRateCapped ==
    /\ current_gas_price <= MAX_GAS_PRICE
    /\ profit_info.gas_price_used <= MAX_GAS_PRICE
    /\ tx.leg # 0 => tx.gasPrice <= MAX_GAS_PRICE
    /\ \A i \in 1..Len(txlog) : txlog[i].gasPrice <= MAX_GAS_PRICE

\* C10 witness: the network reports more than the ceiling while a leg is
\* built, and the leg carries the ceiling
C10_Witness ==
    /\ pc \in {"leg1_send", "leg2_send"}
    /\ net_gas > MAX_GAS_PRICE
    /\ tx.gasPrice = MAX_GAS_PRICE
    /\ profit_info.gas_price_used = MAX_GAS_PRICE

\* C11: get_dynamic_swap_amount is monotonic, returns one of the three
\* tiers 2, 3 and 5, and its thresholds are strict: a deviation of exactly
\* 0.2 gives 3 and a deviation of exactly 0.1 gives 2.
C11_SizerMonotonicStrictTiers ==
    size1 # 0 =>
       /\ dev1 < dev2 => size1 <= size2
       /\ size1 \in {2, 3, 5} /\ size2 \in {2, 3, 5}
       /\ dev1 = 20 => size1 = 3
       /\ dev1 = 10 => size1 = 2
       /\ dev1 > 20 => size1 = 5
       /\ (dev1 > 10 /\ dev1 <= 20) => size1 = 3
       /\ dev1 <= 10 => size1 = 2

\* C11 witness: the sizer was applied at the boundary 0.2 and just above it
C11_Witness ==
    /\ dev1 = 20 /\ size1 = 3
    /\ dev2 = 21 /\ size2 = 5

\* C12: when a required startup condition fails, the script ends at startup:
\* no main block is entered, no quote or fee rate is requested and no
\* transaction is submitted.
C12_StartupFailureNeverPolls ==
    config # GoodConfig =>
       /\ pc \in {"startup", "exited"}
       /\ pc = "exited" => exit_reason = "startup"
       /\ cycle = 0
       /\ net_gas = 0 /\ price_uniswap = 0 /\ price_crystal = 0
       /\ tx = NoTx /\ txlog = <<>> /\ ledger = <<>>

\* C12 witness: the script has ended at startup for want of the private key
C12_Witness ==
    /\ ~config.private_key
    /\ config.addresses /\ config.rpc /\ config.abi
    /\ pc = "exited"
    /\ exit_reason = "startup"
    /\ error = "ValueError"

LegPositions ==
    {"leg1_build", "leg1_send", "leg1_wait"} \cup Leg2Positions

\* C13: when the two quotes are equal and positive, whatever the fee rate,
\* the deviation is 0, the smallest tier (2 MON) is selected, the profit
\* estimate is not positive, and the cycle is decided Skip: no leg is built.
C13_EqualQuotesSkip ==
    (price_uniswap = price_crystal /\ price_uniswap > 0) =>
       /\ PriceDiff(price_uniswap, price_crystal) = RatInt(0)
       /\ swap_amount \in {0, 2}
       /\ pc \in {"profit", "decide", "sleep"} => swap_amount = 2
       /\ pc \in {"decide", "sleep"} =>
             /\ profit_info # NoProfitInfo
             /\ RatGE(RatInt(0), profit_info.profit_mon)
       /\ ~RatGT(profit_info.profit_mon, RatInt(0))
       /\ decision # "Execute"
       /\ pc = "sleep" => decision = "Skip"
       /\ pc \notin LegPositions
       /\ tx = NoTx /\ txlog = <<>>

\* C13 witness: a cycle with equal positive quotes has been skipped
C13_Witness ==
    /\ price_uniswap = price_crystal /\ price_uniswap > 0
    /\ swap_amount = 2
    /\ RatGT(RatInt(0), profit_info.profit_mon)
    /\ decision = "Skip"
    /\ pc = "sleep"

\* The statements of C14, C15, C17 and C19 are checked on runs in which no
\* interrupt was accepted, like those of C3 to C7.

\* C14 (as claimed): the size leg 1 sells is the size the evaluator selected
\* from the deviation and used in the profit estimate of that cycle.
C14_Leg1SellsEvaluatedSize ==
    ~interrupted =>
        /\ \A i \in LegsOf(1) : txlog[i].amount = swap_amount
        /\ (pc \in LegPositions /\ exec_swap_amount # 0) =>
              exec_swap_amount = swap_amount

\* C15 (as claimed): a failure while a leg is built (nonce read, fee-rate
\* read, build_transaction) is recovered inside the attempt: the run does
\* not end with it.
C15_BuildFailureRecovered ==
    ~interrupted =>
        ~(decision = "Execute" /\ pc = "exited" /\ exit_reason = "critical")

\* the quote of a venue in the current cycle
QuoteOf(router) ==
    IF router = "uniswap" THEN price_uniswap ELSE price_crystal
OtherRouter(router) == IF router = "uniswap" THEN "crystal" ELSE "uniswap"

\* C16: leg 1 goes to the venue whose quote of the cycle is strictly greater
\* and leg 2 to the other venue; the legs of an attempt never share a venue.
C16_LegsOnHighThenLowVenue ==
    /\ \A i \in LegsOf(1) :
          /\ txlog[i].router \in Routers
          /\ QuoteOf(txlog[i].router) > QuoteOf(OtherRouter(txlog[i].router))
    /\ \A i \in LegsOf(2) :
          /\ QuoteOf(txlog[i].router) < QuoteOf(OtherRouter(txlog[i].router))
          /\ \A j \in LegsOf(1) : txlog[j].router # txlog[i].router
    /\ tx.leg = 1 => QuoteOf(tx.router) > QuoteOf(OtherRouter(tx.router))
    /\ tx.leg = 2 => QuoteOf(tx.router) < QuoteOf(OtherRouter(tx.router))

\* C16 witness: both legs were submitted, leg 1 on Crystal, leg 2 on Uniswap
C16_Witness ==
    /\ Len(txlog) = 2
    /\ txlog[1].leg = 1 /\ txlog[1].router = "crystal"
    /\ txlog[2].leg = 2 /\ txlog[2].router = "uniswap"
    /\ price_crystal > price_uniswap

\* C17 (as claimed): no two transactions the bot has submitted carry the
\* same nonce, a transaction left pending by a failed wait included.
C17_NoncesDistinct ==
    ~interrupted =>
        \A i \in 1..Len(ledger), j \in 1..Len(ledger) :
           i # j => ledger[i].nonce # ledger[j].nonce

\* C18: the amount of MON leg 2 asks to buy back is the amount leg 1 sold in
\* the same attempt, and both legs are addressed to the bot's own account.
C18_Leg2BuysBackLeg1Amount ==
    /\ \A i \in 1..Len(txlog) : txlog[i].to = "account"
    /\ \A i \in LegsOf(2) :
          \E j \in LegsOf(1) :
             /\ j < i
             /\ txlog[j].cycle = txlog[i].cycle
             /\ txlog[j].amount = txlog[i].amount
    /\ (tx.leg = 2 /\ tx_hash1 # 0) =>
          /\ tx.amount = txlog[tx_hash1].amount
          /\ tx.to = txlog[tx_hash1].to

\* C18 witness: both legs of an attempt are mined, each for 5 MON
C18_Witness ==
    /\ Len(txlog) = 2
    /\ txlog[1].leg = 1 /\ txlog[1].status = "success"
    /\ txlog[2].leg = 2 /\ txlog[2].status = "success"
    /\ txlog[1].amount = 5 /\ txlog[2].amount = 5
    /\ result = "True"

\* C19 (as claimed): the fee rate inside the profit estimate is the one
\* sampled at the start of the cycle and passed to the evaluation.
C19_EstimateUsesCycleFeeRate ==
    ~interrupted =>
        (profit_info # NoProfitInfo =>
            profit_info.gas_price_used = current_gas_price)

====
